---- MODULE Spec2Model ----
(***************************************************************************)
(* Transaction protocol of the private-currency service                    *)
(* (src/src/transactions.rs): CreateWallet, Transfer and Accept, each with *)
(* its verify and execute, run against the ledger store, together with    *)
(* the expiry sweep that the block host applies when the height advances.  *)
(*                                                                         *)
(* Abstractions.  A Commitment is modelled by the hidden integer it        *)
(* commits to (the blinding factor is dropped), so the homomorphic         *)
(* subtraction is integer subtraction.  A SimpleRangeProof is modelled by  *)
(* the commitment it was built for; a negative number stands for a         *)
(* forged proof, because no prover can build a proof for a negative        *)
(* value.  A signature is modelled by the key that signed the message.     *)
(* The encrypted opening of a transfer is stored opaquely by the code and  *)
(* influences nothing, it is left out.                                     *)
(*                                                                         *)
(* The storage schema, the crypto primitives, CONFIG and the expiry hook   *)
(* are not part of transactions.rs; they are modelled from the             *)
(* specification's description of their contract (sections 4.4 and 6).     *)
(* The expiry sweep runs when the height advances, before the              *)
(* transactions of the new block, so a transaction never sees a Pending    *)
(* transfer whose deadline has been reached.                               *)
(*                                                                         *)
(* The ledger the service starts on holds one funded wallet, kA: no        *)
(* transaction issues value (CreateWallet creates an empty wallet), so the *)
(* funds that transfers move are those of the genesis ledger.  execute     *)
(* commits whatever it wrote to the fork; the model does not rely on the   *)
(* host discarding the fork of a failed transaction.                       *)
(*                                                                         *)
(* Transactions reach a block only after verify accepted them, and verify  *)
(* reads nothing but the transaction, so admission and execution are one   *)
(* step here; a proof authored against an earlier balance is a proof whose *)
(* commitment differs from the one execute recomputes.  Every step records *)
(* the transaction it applied and its result in last; acceptedOk and       *)
(* refunded count, per transfer id, the successful Accepts and the         *)
(* reversals by the sweep.                                                 *)
(***************************************************************************)
EXTENDS Integers, FiniteSets, Sequences, TLC

VARIABLES wallets, transfers, height, nextId, last, acceptedOk, refunded

vars == <<wallets, transfers, height, nextId, last, acceptedOk, refunded>>

(***************************************************************************)
(* Bounds of the model.                                                    *)
(***************************************************************************)
\* Number of Transfer transactions that are ever applied (transfer ids).
MaxTransfers == 2
\* Last block height the model advances to.
MaxHeight == 2
\* Balance of the funded wallet of the ledger the service starts on.
GenesisBalance == 1

\* Keys whose owners register a wallet (kA holds the genesis wallet), and all
\* keys that sign transactions: the owner of kC never registers.
Owners == {"kA", "kB"}
Keys == Owners \cup {"kC"}
TransferIds == 1..MaxTransfers

(***************************************************************************)
(* CONFIG (scaled down): min_transfer_amount and rollback_delay_bounds.    *)
(***************************************************************************)
min_transfer_amount == 1
rollback_delay_bounds_start == 1
rollback_delay_bounds_end == 3

(***************************************************************************)
(* Crypto primitives.                                                      *)
(***************************************************************************)
Forged == -1

\* Commitment::with_no_blinding
with_no_blinding(value) == value

\* &Commitment - &Commitment
CommitmentSub(a, b) == a - b

\* &Commitment + &Commitment
CommitmentAdd(a, b) == a + b

\* SimpleRangeProof::verify: the proof was built for this very commitment and
\* the committed value is not negative.
RangeProofVerify(proof, commitment) == proof = commitment /\ commitment >= 0

\* The proof an author can build for a commitment: none for a negative value.
RangeProofProve(commitment) == IF commitment >= 0 THEN commitment ELSE Forged

\* Message::verify_signature
verify_signature(tx, key) == tx.signer = key

MIN_TRANSFER_COMMITMENT == with_no_blinding(min_transfer_amount)

(***************************************************************************)
(* Results of execute.                                                     *)
(***************************************************************************)
Ok == "Ok"
WalletExists == "WalletExists"
UnregisteredSender == "UnregisteredSender"
UnregisteredReceiver == "UnregisteredReceiver"
IncorrectProof == "IncorrectProof"
UnknownTransfer == "UnknownTransfer"
UnauthorizedAccept == "UnauthorizedAccept"

Errors ==
  {WalletExists, UnregisteredSender, UnregisteredReceiver, IncorrectProof,
   UnknownTransfer, UnauthorizedAccept}

None == [some |-> FALSE]
Some(v) == [some |-> TRUE, val |-> v]

(***************************************************************************)
(* Ledger store.  A fork is the mutable view of the ledger handed to       *)
(* execute: the wallets (key -> balance commitment), the transfer records  *)
(* (transfer id -> PendingTransfer) and the height of the block being      *)
(* applied.                                                                *)
(***************************************************************************)
Fork(w, t, h) == [wallets |-> w, transfers |-> t, height |-> h]

\* Schema::wallet
wallet(fork, key) ==
  IF key \in DOMAIN fork.wallets
    THEN Some([key |-> key, balance |-> fork.wallets[key]])
    ELSE None

\* Schema::create_wallet
create_wallet(fork, key) ==
  IF key \in DOMAIN fork.wallets
    THEN [res |-> WalletExists, fork |-> fork]
    ELSE [res |-> Ok,
          fork |-> [fork EXCEPT !.wallets = (key :> with_no_blinding(0)) @@ fork.wallets]]

\* Schema::update_sender: debits the sender.
update_sender(fork, sender, amount) ==
  [fork EXCEPT !.wallets[sender.key] = CommitmentSub(@, amount)]

\* Schema::add_unaccepted_payment: creates the PendingTransfer record.
add_unaccepted_payment(fork, receiver, tx, id) ==
  [fork EXCEPT !.transfers =
     (id :> [from |-> tx.from,
             to |-> receiver.key,
             amount |-> tx.amount,
             created_at_height |-> fork.height,
             expires_at_height |-> fork.height + tx.rollback_delay,
             status |-> "Pending"]) @@ fork.transfers]

\* storage::maybe_transfer: the transfer, only while it is Pending.
maybe_transfer(fork, id) ==
  IF id \in DOMAIN fork.transfers /\ fork.transfers[id].status = "Pending"
    THEN Some(fork.transfers[id])
    ELSE None

\* Schema::accept_payment: credits the receiver and marks the transfer Accepted.
accept_payment(fork, transfer, id) ==
  [res |-> Ok,
   fork |-> [fork EXCEPT !.wallets[transfer.to] = CommitmentAdd(@, transfer.amount),
                         !.transfers[id].status = "Accepted"]]

(***************************************************************************)
(* Expiry mechanism (spec section 4.4).                                    *)
(***************************************************************************)
\* Expired without the restriction to Pending transfers.
Expired_AnyStatus(fork) ==
  {id \in DOMAIN fork.transfers : fork.height >= fork.transfers[id].expires_at_height}

\* Expired with the deadline compared strictly.
Expired_Late(fork) ==
  {id \in DOMAIN fork.transfers :
     /\ fork.transfers[id].status = "Pending"
     /\ fork.height > fork.transfers[id].expires_at_height}

\* The transfers the sweep at the fork's height reverses.
Expired(fork) ==
  {id \in DOMAIN fork.transfers :
     /\ fork.transfers[id].status = "Pending"
     /\ fork.height >= fork.transfers[id].expires_at_height}

\* Reversal of one transfer: the sender is credited back, the record is RolledBack.
rollback_transfer(fork, id) ==
  [fork EXCEPT !.wallets[fork.transfers[id].from] =
                 CommitmentAdd(@, fork.transfers[id].amount),
               !.transfers[id].status = "RolledBack"]

RECURSIVE rollback_all(_, _)
rollback_all(fork, ids) ==
  IF ids = {} THEN fork
  ELSE LET id == CHOOSE i \in ids : \A j \in ids : i <= j
       IN rollback_all(rollback_transfer(fork, id), ids \ {id})

\* The per-block hook: height advances, then the expired transfers are reversed.
do_rollback(fork) == rollback_all(fork, Expired(fork))

(***************************************************************************)
(* CreateWallet                                                            *)
(***************************************************************************)
CreateWallet_verify(tx) == verify_signature(tx, tx.key)

\* CreateWallet_execute that drops the error of create_wallet.
CreateWallet_execute_IgnoreError(fork, tx) ==
  [res |-> Ok, fork |-> create_wallet(fork, tx.key).fork]

CreateWallet_execute(fork, tx) == create_wallet(fork, tx.key)

(***************************************************************************)
(* Transfer                                                                *)
(***************************************************************************)
\* verify_stateless that checks the amount itself instead of the amount less
\* the floor.
verify_stateless_NoFloor(tx) == RangeProofVerify(tx.amount_proof, tx.amount)

verify_stateless(tx) ==
  RangeProofVerify(tx.amount_proof, CommitmentSub(tx.amount, MIN_TRANSFER_COMMITMENT))

\* verify_stateful that checks the proof without recomputing the commitment
\* from the sender's balance.
verify_stateful_Detached(tx, sender) ==
  RangeProofVerify(tx.sufficient_balance_proof, tx.sufficient_balance_proof)

verify_stateful(tx, sender) ==
  LET remaining_balance == CommitmentSub(sender.balance, tx.amount)
  IN RangeProofVerify(tx.sufficient_balance_proof, remaining_balance)

\* Transfer_verify with the upper bound of the delay taken as inclusive.
Transfer_verify_Inclusive(tx) ==
  IF \/ rollback_delay_bounds_start > tx.rollback_delay
     \/ rollback_delay_bounds_end < tx.rollback_delay
    THEN FALSE
    ELSE /\ tx.from # tx.to
         /\ verify_signature(tx, tx.from)
         /\ verify_stateless(tx)

\* Transfer_verify without the comparison of sender and receiver.
Transfer_verify_AllowSelf(tx) ==
  IF \/ rollback_delay_bounds_start > tx.rollback_delay
     \/ rollback_delay_bounds_end <= tx.rollback_delay
    THEN FALSE
    ELSE /\ verify_signature(tx, tx.from)
         /\ verify_stateless(tx)

Transfer_verify(tx) ==
  IF \/ rollback_delay_bounds_start > tx.rollback_delay
     \/ rollback_delay_bounds_end <= tx.rollback_delay
    THEN FALSE
    ELSE /\ tx.from # tx.to
         /\ verify_signature(tx, tx.from)
         /\ verify_stateless(tx)

\* Amount escrowed in the Pending transfers sent by a wallet.
RECURSIVE EscrowOf(_, _, _)
EscrowOf(t, ids, key) ==
  IF ids = {} THEN 0
  ELSE LET id == CHOOSE i \in ids : TRUE
       IN (IF t[id].status = "Pending" /\ t[id].from = key THEN t[id].amount ELSE 0)
            + EscrowOf(t, ids \ {id}, key)

\* Transfer_execute that checks the proof against the balance before the
\* sender's escrowed amounts were debited.
Transfer_execute_PreEscrow(fork, tx, id) ==
  LET sender == wallet(fork, tx.from)
      receiver == wallet(fork, tx.to)
  IN IF ~sender.some THEN [res |-> UnregisteredSender, fork |-> fork]
     ELSE IF ~receiver.some THEN [res |-> UnregisteredReceiver, fork |-> fork]
     ELSE IF ~verify_stateful(tx,
                [sender.val EXCEPT !.balance =
                   @ + EscrowOf(fork.transfers, DOMAIN fork.transfers, tx.from)])
       THEN [res |-> IncorrectProof, fork |-> fork]
     ELSE [res |-> Ok,
           fork |-> add_unaccepted_payment(
                      update_sender(fork, sender.val, tx.amount), receiver.val, tx, id)]

\* Transfer_execute that does not debit the sender.
Transfer_execute_NoDebit(fork, tx, id) ==
  LET sender == wallet(fork, tx.from)
      receiver == wallet(fork, tx.to)
  IN IF ~sender.some THEN [res |-> UnregisteredSender, fork |-> fork]
     ELSE IF ~receiver.some THEN [res |-> UnregisteredReceiver, fork |-> fork]
     ELSE IF ~verify_stateful(tx, sender.val) THEN [res |-> IncorrectProof, fork |-> fork]
     ELSE [res |-> Ok, fork |-> add_unaccepted_payment(fork, receiver.val, tx, id)]

\* Transfer_execute that credits the receiver at once.
Transfer_execute_CreditNow(fork, tx, id) ==
  LET sender == wallet(fork, tx.from)
      receiver == wallet(fork, tx.to)
  IN IF ~sender.some THEN [res |-> UnregisteredSender, fork |-> fork]
     ELSE IF ~receiver.some THEN [res |-> UnregisteredReceiver, fork |-> fork]
     ELSE IF ~verify_stateful(tx, sender.val) THEN [res |-> IncorrectProof, fork |-> fork]
     ELSE [res |-> Ok,
           fork |-> add_unaccepted_payment(
                      [update_sender(fork, sender.val, tx.amount)
                         EXCEPT !.wallets[tx.to] = CommitmentAdd(@, tx.amount)],
                      receiver.val, tx, id)]

\* Transfer_execute that debits the sender before the checks.
Transfer_execute_DebitFirst(fork, tx, id) ==
  LET sender == wallet(fork, tx.from)
      receiver == wallet(fork, tx.to)
  IN IF ~sender.some THEN [res |-> UnregisteredSender, fork |-> fork]
     ELSE LET debited == update_sender(fork, sender.val, tx.amount)
          IN IF ~receiver.some THEN [res |-> UnregisteredReceiver, fork |-> debited]
             ELSE IF ~verify_stateful(tx, sender.val)
               THEN [res |-> IncorrectProof, fork |-> debited]
             ELSE [res |-> Ok, fork |-> add_unaccepted_payment(debited, receiver.val, tx, id)]

\* Transfer_execute that debits the sender without recording the transfer.
Transfer_execute_NoRecord(fork, tx, id) ==
  LET sender == wallet(fork, tx.from)
      receiver == wallet(fork, tx.to)
  IN IF ~sender.some THEN [res |-> UnregisteredSender, fork |-> fork]
     ELSE IF ~receiver.some THEN [res |-> UnregisteredReceiver, fork |-> fork]
     ELSE IF ~verify_stateful(tx, sender.val) THEN [res |-> IncorrectProof, fork |-> fork]
     ELSE [res |-> Ok, fork |-> update_sender(fork, sender.val, tx.amount)]

\* Transfer_execute that resolves the receiver before the sender.
Transfer_execute_ReceiverFirst(fork, tx, id) ==
  LET sender == wallet(fork, tx.from)
      receiver == wallet(fork, tx.to)
  IN IF ~receiver.some THEN [res |-> UnregisteredReceiver, fork |-> fork]
     ELSE IF ~sender.some THEN [res |-> UnregisteredSender, fork |-> fork]
     ELSE IF ~verify_stateful(tx, sender.val) THEN [res |-> IncorrectProof, fork |-> fork]
     ELSE [res |-> Ok,
           fork |-> add_unaccepted_payment(
                      update_sender(fork, sender.val, tx.amount), receiver.val, tx, id)]

\* Transfer_execute that does not require the receiver to be registered.
Transfer_execute_AnyReceiver(fork, tx, id) ==
  LET sender == wallet(fork, tx.from)
  IN IF ~sender.some THEN [res |-> UnregisteredSender, fork |-> fork]
     ELSE IF ~verify_stateful(tx, sender.val) THEN [res |-> IncorrectProof, fork |-> fork]
     ELSE [res |-> Ok,
           fork |-> add_unaccepted_payment(
                      update_sender(fork, sender.val, tx.amount), [key |-> tx.to], tx, id)]

Transfer_execute(fork, tx, id) ==
  LET sender == wallet(fork, tx.from)
      receiver == wallet(fork, tx.to)
  IN IF ~sender.some THEN [res |-> UnregisteredSender, fork |-> fork]
     ELSE IF ~receiver.some THEN [res |-> UnregisteredReceiver, fork |-> fork]
     ELSE IF ~verify_stateful(tx, sender.val) THEN [res |-> IncorrectProof, fork |-> fork]
     ELSE [res |-> Ok,
           fork |-> add_unaccepted_payment(
                      update_sender(fork, sender.val, tx.amount), receiver.val, tx, id)]

(***************************************************************************)
(* Accept                                                                  *)
(***************************************************************************)
Accept_verify(tx) == verify_signature(tx, tx.receiver)

\* Accept_execute with the lookup not restricted to Pending transfers.
Accept_execute_AnyStatus(fork, tx) ==
  LET id == tx.transfer_id
  IN IF id \notin DOMAIN fork.transfers THEN [res |-> UnknownTransfer, fork |-> fork]
     ELSE IF fork.transfers[id].to # tx.receiver
       THEN [res |-> UnauthorizedAccept, fork |-> fork]
     ELSE accept_payment(fork, fork.transfers[id], id)

\* Accept_execute with the lookup excluding Accepted transfers only.
Accept_execute_NotAccepted(fork, tx) ==
  LET id == tx.transfer_id
  IN IF id \notin DOMAIN fork.transfers \/ fork.transfers[id].status = "Accepted"
       THEN [res |-> UnknownTransfer, fork |-> fork]
     ELSE IF fork.transfers[id].to # tx.receiver
       THEN [res |-> UnauthorizedAccept, fork |-> fork]
     ELSE accept_payment(fork, fork.transfers[id], id)

\* Accept_execute without the comparison of the signer with the receiver.
Accept_execute_NoReceiverCheck(fork, tx) ==
  LET transfer == maybe_transfer(fork, tx.transfer_id)
  IN IF ~transfer.some THEN [res |-> UnknownTransfer, fork |-> fork]
     ELSE accept_payment(fork, transfer.val, tx.transfer_id)

\* Accept_execute that takes the amount from the sender when it credits the
\* receiver.
Accept_execute_DebitSender(fork, tx) ==
  LET transfer == maybe_transfer(fork, tx.transfer_id)
  IN IF ~transfer.some THEN [res |-> UnknownTransfer, fork |-> fork]
     ELSE IF transfer.val.to # tx.receiver THEN [res |-> UnauthorizedAccept, fork |-> fork]
     ELSE LET r == accept_payment(fork, transfer.val, tx.transfer_id)
          IN [r EXCEPT !.fork.wallets[transfer.val.from] =
                         CommitmentSub(@, transfer.val.amount)]

\* Accept_execute that closes the transfer when it refuses an unauthorized
\* Accept.
Accept_execute_CloseOnRefusal(fork, tx) ==
  LET transfer == maybe_transfer(fork, tx.transfer_id)
  IN IF ~transfer.some THEN [res |-> UnknownTransfer, fork |-> fork]
     ELSE IF transfer.val.to # tx.receiver
       THEN [res |-> UnauthorizedAccept,
             fork |-> [fork EXCEPT !.transfers[tx.transfer_id].status = "Accepted"]]
     ELSE accept_payment(fork, transfer.val, tx.transfer_id)

Accept_execute(fork, tx) ==
  LET transfer == maybe_transfer(fork, tx.transfer_id)
  IN IF ~transfer.some THEN [res |-> UnknownTransfer, fork |-> fork]
     ELSE IF transfer.val.to # tx.receiver THEN [res |-> UnauthorizedAccept, fork |-> fork]
     ELSE accept_payment(fork, transfer.val, tx.transfer_id)

(***************************************************************************)
(* Transactions that can be submitted.                                     *)
(***************************************************************************)
\* Amounts a Transfer commits to, and the proofs it carries.
Amounts == 0..GenesisBalance
Proofs == Forged..(GenesisBalance - 1)

CreateWalletTxs == [key : Owners, signer : Keys]

TransferTxs ==
  [from : Keys, to : Keys, rollback_delay : 0..(rollback_delay_bounds_end + 1),
   amount : Amounts, amount_proof : Proofs,
   sufficient_balance_proof : Proofs, signer : Keys]

AcceptTxs == [receiver : Keys, transfer_id : TransferIds, signer : Keys]

\* Only transactions that pass verify reach a block.
VerifiedCreateWallets == {tx \in CreateWalletTxs : CreateWallet_verify(tx)}
VerifiedTransfers == {tx \in TransferTxs : Transfer_verify(tx)}
VerifiedAccepts == {tx \in AcceptTxs : Accept_verify(tx)}

NoTx == [none |-> TRUE]

(***************************************************************************)
(* The state machine.                                                      *)
(***************************************************************************)
Init ==
  /\ wallets = ("kA" :> GenesisBalance)
  /\ transfers = <<>>
  /\ height = 0
  /\ nextId = 1
  /\ last = [op |-> "Init", tx |-> NoTx, id |-> 0, res |-> Ok]
  /\ acceptedOk = [id \in TransferIds |-> 0]
  /\ refunded = [id \in TransferIds |-> 0]

Store(fork) ==
  /\ wallets' = fork.wallets
  /\ transfers' = fork.transfers

\* A CreateWallet transaction is applied in the current block.
CreateWallet(tx) ==
  LET r == CreateWallet_execute(Fork(wallets, transfers, height), tx)
  IN /\ Store(r.fork)
     /\ last' = [op |-> "CreateWallet", tx |-> tx, id |-> 0, res |-> r.res]
     /\ UNCHANGED <<height, nextId, acceptedOk, refunded>>

\* Transfer.execute runs on the current ledger.  The id stands for the hash of
\* the transaction.
ExecuteTransfer(tx) ==
  /\ LET r == Transfer_execute(Fork(wallets, transfers, height), tx, nextId)
     IN /\ Store(r.fork)
        /\ last' = [op |-> "Transfer", tx |-> tx, id |-> nextId, res |-> r.res]
  /\ nextId' = nextId + 1
  /\ UNCHANGED <<height, acceptedOk, refunded>>

\* A Transfer transaction is applied in the current block.
Transfer(tx) ==
  /\ nextId <= MaxTransfers
  /\ height + tx.rollback_delay <= MaxHeight
  /\ ExecuteTransfer(tx)

\* An Accept transaction is applied in the current block.
Accept(tx) ==
  LET r == Accept_execute(Fork(wallets, transfers, height), tx)
  IN /\ Store(r.fork)
     /\ last' = [op |-> "Accept", tx |-> tx, id |-> tx.transfer_id, res |-> r.res]
     /\ acceptedOk' =
          IF r.res = Ok THEN [acceptedOk EXCEPT ![tx.transfer_id] = @ + 1] ELSE acceptedOk
     /\ UNCHANGED <<height, nextId, refunded>>

\* The next block starts: the height advances and the expiry sweep runs.
AdvanceHeight ==
  /\ height < MaxHeight
  /\ height' = height + 1
  /\ LET fork == Fork(wallets, transfers, height + 1)
     IN /\ Store(do_rollback(fork))
        /\ refunded' = [id \in TransferIds |->
                          IF id \in Expired(fork) THEN refunded[id] + 1 ELSE refunded[id]]
  /\ last' = [op |-> "AdvanceHeight", tx |-> NoTx, id |-> 0, res |-> Ok]
  /\ UNCHANGED <<nextId, acceptedOk>>

Next ==
  \/ \E tx \in VerifiedCreateWallets : CreateWallet(tx)
  \/ \E tx \in VerifiedTransfers : Transfer(tx)
  \/ \E tx \in VerifiedAccepts : Accept(tx)
  \/ AdvanceHeight

Spec == Init /\ [][Next]_vars

\* The block host keeps producing blocks.
LiveSpec == Spec /\ WF_vars(AdvanceHeight)

(***************************************************************************)
(* Admission of one Transfer.  A submitted transaction is checked by       *)
(* verify; a transaction verify rejects is dropped and never executed, one *)
(* it accepts is executed.  The ledger is the genesis ledger, with or      *)
(* without a wallet for kB.                                                *)
(***************************************************************************)
VerifyInit ==
  /\ wallets \in {("kA" :> GenesisBalance),
                  ("kA" :> GenesisBalance) @@ ("kB" :> with_no_blinding(0))}
  /\ transfers = <<>>
  /\ height = 0
  /\ nextId = 1
  /\ last \in {[op |-> "Submitted", tx |-> tx, id |-> 0, res |-> Ok] : tx \in TransferTxs}
  /\ acceptedOk = [id \in TransferIds |-> 0]
  /\ refunded = [id \in TransferIds |-> 0]

\* verify returned false: the transaction is dropped.
Reject ==
  /\ last.op = "Submitted"
  /\ ~Transfer_verify(last.tx)
  /\ last' = [last EXCEPT !.op = "Rejected"]
  /\ UNCHANGED <<wallets, transfers, height, nextId, acceptedOk, refunded>>

\* verify returned true: the transaction is executed.
Admit ==
  /\ last.op = "Submitted"
  /\ Transfer_verify(last.tx)
  /\ ExecuteTransfer(last.tx)

VerifyNext == Reject \/ Admit

VerifySpec == VerifyInit /\ [][VerifyNext]_vars

(***************************************************************************)
(* Helpers of the properties.                                              *)
(***************************************************************************)
IsPending(t, id) == id \in DOMAIN t /\ t[id].status = "Pending"

RECURSIVE SumBalances(_, _)
SumBalances(w, keys) ==
  IF keys = {} THEN 0
  ELSE LET k == CHOOSE x \in keys : TRUE
       IN w[k] + SumBalances(w, keys \ {k})

RECURSIVE SumPending(_, _)
SumPending(t, ids) ==
  IF ids = {} THEN 0
  ELSE LET id == CHOOSE i \in ids : TRUE
       IN (IF t[id].status = "Pending" THEN t[id].amount ELSE 0)
            + SumPending(t, ids \ {id})

\* The step just taken applied a transaction of this kind (every action
\* records itself in last).
Applied(op) == last'.op = op

\* The transaction is well-formed in everything but the named check.
DelayInBounds(tx) ==
  /\ rollback_delay_bounds_start <= tx.rollback_delay
  /\ tx.rollback_delay < rollback_delay_bounds_end

GenuineAmountProof(tx) ==
  /\ tx.amount >= min_transfer_amount
  /\ tx.amount_proof = RangeProofProve(tx.amount - min_transfer_amount)

LedgerUnchanged == wallets' = wallets /\ transfers' = transfers

(***************************************************************************)
(* C1.  Accept.execute returns Ok at most once per transfer_id, and an     *)
(* Accept on a transfer that is Accepted, RolledBack or unknown fails with *)
(* UnknownTransfer, whoever signs it, and credits no wallet.               *)
(***************************************************************************)
C1_AcceptAtMostOnce ==
  /\ [](\A id \in TransferIds : acceptedOk[id] <= 1)
  /\ [][(Applied("Accept") /\ ~IsPending(transfers, last'.id))
          => (last'.res = UnknownTransfer /\ wallets' = wallets)]_vars

\* A second Accept by the true receiver on an Accepted transfer has failed.
C1_Witness ==
  /\ last.op = "Accept"
  /\ last.res = UnknownTransfer
  /\ acceptedOk[last.id] = 1
  /\ transfers[last.id].to = last.tx.receiver

(***************************************************************************)
(* C2.  Conservation: the wallets' balances plus the amounts of the        *)
(* Pending transfers add up to the balances the wallets were created with. *)
(***************************************************************************)
C2_Conservation ==
  SumBalances(wallets, DOMAIN wallets) + SumPending(transfers, DOMAIN transfers)
    = GenesisBalance

\* One transfer has been accepted and its amount is escrowed again by a
\* second, Pending transfer.
C2_Witness ==
  \E i, j \in DOMAIN transfers :
    /\ transfers[i].status = "Accepted"
    /\ transfers[j].status = "Pending"
    /\ transfers[j].from = transfers[i].to

(***************************************************************************)
(* C3.  Every wallet's hidden balance is non-negative in every reachable   *)
(* state.                                                                  *)
(***************************************************************************)
C3_NonNegative == \A k \in DOMAIN wallets : wallets[k] >= 0

\* A successful Transfer has debited its sender down to zero.
C3_Witness ==
  /\ last.op = "Transfer"
  /\ last.res = Ok
  /\ wallets[last.tx.from] = 0

(***************************************************************************)
(* C4.  Transfer.execute checks the balance proof against the sender's     *)
(* balance at the moment of execution: when that balance is smaller than   *)
(* the amount the result is IncorrectProof, also for a proof that was      *)
(* valid when the transfer was authored; a successful Transfer is covered  *)
(* by the current balance, which excludes the amounts escrowed by Pending  *)
(* transfers.                                                              *)
(***************************************************************************)
C4_CurrentBalanceChecked ==
  [][(/\ Applied("Transfer")
      /\ last'.tx.from \in DOMAIN wallets
      /\ last'.tx.to \in DOMAIN wallets)
       => /\ wallets[last'.tx.from] < last'.tx.amount => last'.res = IncorrectProof
          /\ last'.res = Ok
               => /\ last'.tx.amount <= wallets[last'.tx.from]
                  /\ last'.tx.sufficient_balance_proof
                       = wallets[last'.tx.from] - last'.tx.amount]_vars

\* kA's transfer, carrying the proof built against kA's genesis balance, has
\* failed because that balance is escrowed by a Pending transfer of kA.
C4_Witness ==
  /\ last.op = "Transfer"
  /\ last.res = IncorrectProof
  /\ last.tx.from = "kA"
  /\ last.tx.sufficient_balance_proof = GenesisBalance - last.tx.amount
  /\ \E id \in DOMAIN transfers : IsPending(transfers, id) /\ transfers[id].from = "kA"

(***************************************************************************)
(* C5.  Expiry is exactly-once per transfer: a transfer still Pending when *)
(* the height reaches its expires_at_height is rolled back by the sweep of *)
(* that height, the sender is credited with its amount one time, and no    *)
(* later block credits the sender for it again.                            *)
(***************************************************************************)
\* Amount of the transfers sent by key that the sweep of height h reverses.
RECURSIVE DueOf(_, _, _, _)
DueOf(t, ids, key, h) ==
  IF ids = {} THEN 0
  ELSE LET id == CHOOSE i \in ids : TRUE
       IN (IF /\ t[id].status = "Pending"
              /\ t[id].from = key
              /\ h >= t[id].expires_at_height
             THEN t[id].amount ELSE 0)
            + DueOf(t, ids \ {id}, key, h)

C5_ExpiryExactlyOnce ==
  /\ [](\A id \in TransferIds :
          /\ refunded[id] <= 1
          /\ refunded[id] = 1 <=> (id \in DOMAIN transfers /\ transfers[id].status = "RolledBack")
          /\ IsPending(transfers, id) => height < transfers[id].expires_at_height)
  /\ [][Applied("AdvanceHeight")
          => \A k \in DOMAIN wallets :
               wallets'[k] = wallets[k] + DueOf(transfers, DOMAIN transfers, k, height')]_vars

\* A block has been processed after the one that rolled a transfer back.
C5_Witness ==
  /\ last.op = "AdvanceHeight"
  /\ \E id \in DOMAIN transfers :
       /\ transfers[id].status = "RolledBack"
       /\ height > transfers[id].expires_at_height
       /\ refunded[id] = 1
       /\ wallets[transfers[id].from] = GenesisBalance

(***************************************************************************)
(* C6.  A transfer leaves Pending once and for good: an Accepted or        *)
(* RolledBack record never changes again, no record disappears, and no     *)
(* transfer is both credited to its receiver and refunded to its sender.   *)
(***************************************************************************)
C6_TerminalStatus ==
  /\ [](\A id \in TransferIds : ~(acceptedOk[id] > 0 /\ refunded[id] > 0))
  /\ [][\A id \in DOMAIN transfers :
          /\ id \in DOMAIN transfers'
          /\ transfers[id].status # "Pending" => transfers'[id] = transfers[id]
          /\ transfers'[id].status \in {"Pending", "Accepted", "RolledBack"}]_vars

\* The sweep has passed the deadline of an Accepted transfer, and an Accept
\* has been tried on a RolledBack one.
C6_Witness ==
  /\ \E id \in DOMAIN transfers :
       /\ transfers[id].status = "Accepted"
       /\ height >= transfers[id].expires_at_height
  /\ last.op = "Accept"
  /\ last.id \in DOMAIN transfers
  /\ transfers[last.id].status = "RolledBack"
  /\ last.tx.receiver = transfers[last.id].to

(***************************************************************************)
(* C7.  Guaranteed rollback: every Pending transfer eventually leaves      *)
(* Pending as the height advances; once the height has reached             *)
(* expires_at_height without a successful Accept, the transfer is          *)
(* RolledBack, the sender has been credited back the full amount, and      *)
(* every later Accept for it fails with UnknownTransfer.                   *)
(* (Pending leads to not Pending is stated as: not Pending holds again and *)
(* again.)                                                                 *)
(***************************************************************************)
C7_GuaranteedRollback ==
  /\ \A id \in TransferIds : []<>(~IsPending(transfers, id))
  /\ [](\A id \in DOMAIN transfers :
          (height >= transfers[id].expires_at_height /\ acceptedOk[id] = 0)
            => (transfers[id].status = "RolledBack" /\ refunded[id] = 1))
  /\ [][\A id \in DOMAIN transfers :
          (IsPending(transfers, id) /\ transfers'[id].status = "RolledBack")
            => wallets'[transfers[id].from] >= wallets[transfers[id].from] + transfers[id].amount]_vars
  /\ [][(/\ Applied("Accept")
         /\ last'.id \in DOMAIN transfers
         /\ transfers[last'.id].status = "RolledBack")
          => last'.res = UnknownTransfer]_vars

\* The true receiver's Accept has failed on a transfer that expired unaccepted
\* and whose sender holds the refunded amount.
C7_Witness ==
  /\ last.op = "Accept"
  /\ last.res = UnknownTransfer
  /\ last.id \in DOMAIN transfers
  /\ transfers[last.id].status = "RolledBack"
  /\ transfers[last.id].to = last.tx.receiver
  /\ height >= transfers[last.id].expires_at_height
  /\ wallets[transfers[last.id].from] >= transfers[last.id].amount

(***************************************************************************)
(* C8.  A successful Transfer.execute at height h debits the sender by the *)
(* amount at once, leaves the receiver's balance unchanged and creates a   *)
(* PendingTransfer with status Pending, created_at_height = h and          *)
(* expires_at_height = h + rollback_delay.                                 *)
(***************************************************************************)
C8_TransferEffect ==
  [][(Applied("Transfer") /\ last'.res = Ok)
       => LET tx == last'.tx
              id == last'.id
          IN /\ wallets'[tx.from] = wallets[tx.from] - tx.amount
             /\ wallets'[tx.to] = wallets[tx.to]
             /\ id \notin DOMAIN transfers
             /\ id \in DOMAIN transfers'
             /\ transfers'[id] = [from |-> tx.from,
                                  to |-> tx.to,
                                  amount |-> tx.amount,
                                  created_at_height |-> height,
                                  expires_at_height |-> height + tx.rollback_delay,
                                  status |-> "Pending"]]_vars

\* A Transfer with the smallest admissible delay has succeeded at height 1.
C8_Witness ==
  /\ last.op = "Transfer"
  /\ last.res = Ok
  /\ height = 1
  /\ last.tx.rollback_delay = rollback_delay_bounds_start
  /\ transfers[last.id].created_at_height = 1
  /\ transfers[last.id].expires_at_height = 1 + rollback_delay_bounds_start

(***************************************************************************)
(* C9.  All-or-nothing: when CreateWallet.execute, Transfer.execute or     *)
(* Accept.execute returns an error, the wallets, their balances and the    *)
(* transfer records are the same after the call as before it.              *)
(***************************************************************************)
C9_AllOrNothing ==
  [][last'.res \in Errors
       => (wallets' = wallets /\ transfers' = transfers /\ height' = height)]_vars

\* A Transfer of a funded sender with a genuine proof has failed because the
\* receiver has no wallet.
C9_Witness ==
  /\ last.op = "Transfer"
  /\ last.res = UnregisteredReceiver
  /\ last.tx.from \in DOMAIN wallets
  /\ last.tx.sufficient_balance_proof = wallets[last.tx.from] - last.tx.amount
  /\ last.tx.sufficient_balance_proof >= 0

(***************************************************************************)
(* C10.  An Accept on a Pending transfer by a signer who is not the        *)
(* transfer's receiver fails with UnauthorizedAccept, changes no balance   *)
(* and leaves the transfer Pending; an Accept by the true receiver on a    *)
(* Pending transfer succeeds.                                              *)
(***************************************************************************)
C10_UnauthorizedAccept ==
  [][(Applied("Accept") /\ IsPending(transfers, last'.id))
       => IF transfers[last'.id].to # last'.tx.receiver
            THEN /\ last'.res = UnauthorizedAccept
                 /\ wallets' = wallets
                 /\ transfers' = transfers
            ELSE /\ last'.res = Ok
                 /\ transfers'[last'.id].status = "Accepted"]_vars

\* A third party's Accept has failed and the transfer is still Pending.
C10_Witness ==
  /\ last.op = "Accept"
  /\ last.res = UnauthorizedAccept
  /\ IsPending(transfers, last.id)
  /\ last.tx.receiver \notin {transfers[last.id].from, transfers[last.id].to}

(***************************************************************************)
(* C11.  CreateWallet.execute for a key without a wallet creates a wallet  *)
(* with balance zero and changes nothing else; for a key that has a wallet *)
(* it fails with WalletExists and leaves that wallet's balance, and the    *)
(* rest of the ledger, as they were.                                       *)
(***************************************************************************)
C11_CreateWallet ==
  [][Applied("CreateWallet")
       => LET key == last'.tx.key
          IN /\ transfers' = transfers
             /\ height' = height
             /\ IF key \notin DOMAIN wallets
                  THEN /\ last'.res = Ok
                       /\ wallets' = (key :> 0) @@ wallets
                  ELSE /\ last'.res = WalletExists
                       /\ wallets' = wallets]_vars

\* CreateWallet for kB has failed after kB received funds, which kB still holds.
C11_Witness ==
  /\ last.op = "CreateWallet"
  /\ last.res = WalletExists
  /\ last.tx.key = "kB"
  /\ wallets["kB"] = GenesisBalance

(***************************************************************************)
(* C12.  A wallet's balance changes only when a Transfer with the wallet   *)
(* as sender succeeds (debit), when an Accept of a transfer to the wallet  *)
(* succeeds (credit), or when the sweep reverses a transfer the wallet     *)
(* sent (credit back); each of these events leaves every other wallet's    *)
(* balance unchanged, and no wallet is ever deleted.                       *)
(***************************************************************************)
C12_BalanceFrame ==
  [][\A k \in DOMAIN wallets :
       /\ k \in DOMAIN wallets'
       /\ wallets'[k] # wallets[k]
            => \/ /\ Applied("Transfer")
                  /\ last'.res = Ok
                  /\ last'.tx.from = k
                  /\ wallets'[k] = wallets[k] - last'.tx.amount
               \/ /\ Applied("Accept")
                  /\ last'.res = Ok
                  /\ transfers[last'.id].to = k
                  /\ wallets'[k] = wallets[k] + transfers[last'.id].amount
               \/ /\ Applied("AdvanceHeight")
                  /\ \E id \in DOMAIN transfers :
                       /\ IsPending(transfers, id)
                       /\ transfers[id].from = k
                       /\ transfers'[id].status = "RolledBack"
                  /\ wallets'[k] = wallets[k] + DueOf(transfers, DOMAIN transfers, k, height')]_vars

\* An Accept has credited its receiver after an earlier transfer of the same
\* sender was reversed by the sweep.
C12_Witness ==
  /\ last.op = "Accept"
  /\ last.res = Ok
  /\ wallets[transfers[last.id].to] = transfers[last.id].amount
  /\ wallets[transfers[last.id].from] = 0
  /\ \E id \in DOMAIN transfers :
       /\ transfers[id].status = "RolledBack"
       /\ transfers[id].from = transfers[last.id].from

(***************************************************************************)
(* C13.  Transfer.verify enforces the half-open delay range: a Transfer    *)
(* whose rollback_delay equals rollback_delay_bounds.end, exceeds it or is *)
(* below rollback_delay_bounds.start is rejected; one whose delay equals   *)
(* rollback_delay_bounds.start, with sender # receiver, a valid signature  *)
(* and a valid amount proof, is accepted.                                  *)
(***************************************************************************)
C13_DelayRange ==
  [][last.op = "Submitted"
       => LET tx == last.tx
          IN /\ (\/ tx.rollback_delay >= rollback_delay_bounds_end
                 \/ tx.rollback_delay < rollback_delay_bounds_start)
                  => (last'.op = "Rejected" /\ LedgerUnchanged)
             /\ (/\ tx.rollback_delay = rollback_delay_bounds_start
                 /\ tx.from # tx.to
                 /\ tx.signer = tx.from
                 /\ GenuineAmountProof(tx))
                  => last'.op = "Transfer"]_vars

\* A Transfer that is valid in everything but its delay, which equals
\* rollback_delay_bounds.end, has been rejected.
C13_Witness ==
  /\ last.op = "Rejected"
  /\ last.tx.rollback_delay = rollback_delay_bounds_end
  /\ last.tx.from # last.tx.to
  /\ last.tx.signer = last.tx.from
  /\ GenuineAmountProof(last.tx)

(***************************************************************************)
(* C14.  Transfer.verify rejects every Transfer whose sender equals its    *)
(* receiver, whatever its signature, delay and proofs; no self-transfer is *)
(* executed and no wallet is debited by a transfer to itself.              *)
(***************************************************************************)
C14_NoSelfTransfer ==
  /\ [][(last.op = "Submitted" /\ last.tx.from = last.tx.to)
          => (last'.op = "Rejected" /\ LedgerUnchanged)]_vars
  /\ [][Applied("Transfer") => last'.tx.from # last'.tx.to]_vars
  /\ [](\A id \in DOMAIN transfers : transfers[id].from # transfers[id].to)

\* kA's transfer to kA, signed by kA, with an admissible delay and genuine
\* proofs, has been rejected.
C14_Witness ==
  /\ last.op = "Rejected"
  /\ last.tx.from = "kA"
  /\ last.tx.to = "kA"
  /\ last.tx.signer = "kA"
  /\ DelayInBounds(last.tx)
  /\ GenuineAmountProof(last.tx)
  /\ last.tx.sufficient_balance_proof = wallets["kA"] - last.tx.amount

(***************************************************************************)
(* C15.  Transfer.verify accepts a transfer only if its amount is at least *)
(* min_transfer_amount: with all other checks passing, an amount equal to  *)
(* the floor is accepted, and an amount below the floor (zero included) is *)
(* rejected and never reaches execute.                                     *)
(***************************************************************************)
C15_MinimumAmount ==
  /\ [][last.op = "Submitted"
          => LET tx == last.tx
             IN /\ tx.amount < min_transfer_amount
                     => (last'.op = "Rejected" /\ LedgerUnchanged)
                /\ (/\ tx.amount = min_transfer_amount
                    /\ GenuineAmountProof(tx)
                    /\ DelayInBounds(tx)
                    /\ tx.from # tx.to
                    /\ tx.signer = tx.from)
                     => last'.op = "Transfer"]_vars
  /\ [][Applied("Transfer") => last'.tx.amount >= min_transfer_amount]_vars

\* A transfer of amount zero, carrying a genuine proof that zero is not
\* negative and valid in everything else, has been rejected.
C15_Witness ==
  /\ last.op = "Rejected"
  /\ last.tx.amount = 0
  /\ last.tx.amount_proof = RangeProofProve(0)
  /\ DelayInBounds(last.tx)
  /\ last.tx.from # last.tx.to
  /\ last.tx.signer = last.tx.from

\* Sums over the transfer records, per wallet.
RECURSIVE SumAmounts(_, _)
SumAmounts(t, ids) ==
  IF ids = {} THEN 0
  ELSE LET id == CHOOSE i \in ids : TRUE
       IN t[id].amount + SumAmounts(t, ids \ {id})

\* Balance the wallet was created with: kA's is that of the genesis ledger,
\* CreateWallet creates a wallet with balance zero.
CreatedWith(k) == IF k = "kA" THEN GenesisBalance ELSE 0

AcceptedInto(k) ==
  SumAmounts(transfers,
             {id \in DOMAIN transfers :
                transfers[id].to = k /\ transfers[id].status = "Accepted"})

SentOut(k, statuses) ==
  SumAmounts(transfers,
             {id \in DOMAIN transfers :
                transfers[id].from = k /\ transfers[id].status \in statuses})

\* C16 as the specification states it: the amounts of the wallet's Pending
\* transfers are not subtracted.
C16_AsStated ==
  \A k \in DOMAIN wallets :
    wallets[k] = CreatedWith(k) + AcceptedInto(k) - SentOut(k, {"Accepted"})

(***************************************************************************)
(* C16.  Wallet balance invariant.  As the specification states it: each   *)
(* wallet's balance equals the sum of the amounts accepted into the wallet *)
(* minus the sum of the amounts the wallet sent out in transfers that are  *)
(* neither Pending nor RolledBack.  Transfer.execute debits the sender at  *)
(* once, so the amounts of the wallet's Pending transfers are missing from *)
(* the balance as well.  Amended: each wallet's balance equals the balance *)
(* it was created with, plus the amounts accepted into it, minus the       *)
(* amounts it sent out in transfers that are not RolledBack (Pending or    *)
(* Accepted).                                                              *)
(***************************************************************************)
C16_BalanceInvariant ==
  \A k \in DOMAIN wallets :
    wallets[k] = CreatedWith(k) + AcceptedInto(k) - SentOut(k, {"Pending", "Accepted"})

\* kB has accepted an amount and escrowed it again in a Pending transfer of
\* its own.
C16_Witness ==
  /\ "kB" \in DOMAIN wallets
  /\ AcceptedInto("kB") = GenesisBalance
  /\ SentOut("kB", {"Pending"}) = GenesisBalance
  /\ wallets["kB"] = 0

(***************************************************************************)
(* C18.  Transfer.execute reports its errors in a fixed order: without a   *)
(* wallet of the sender the result is UnregisteredSender, also when the    *)
(* receiver is unregistered or the balance proof is invalid; with the      *)
(* sender registered and the receiver not, it is UnregisteredReceiver,     *)
(* also when the balance proof is invalid; IncorrectProof is returned only *)
(* when both wallets exist.                                                *)
(***************************************************************************)
C18_ErrorPrecedence ==
  [][Applied("Transfer")
       => LET tx == last'.tx
          IN /\ tx.from \notin DOMAIN wallets => last'.res = UnregisteredSender
             /\ (tx.from \in DOMAIN wallets /\ tx.to \notin DOMAIN wallets)
                  => last'.res = UnregisteredReceiver
             /\ last'.res = IncorrectProof
                  => (tx.from \in DOMAIN wallets /\ tx.to \in DOMAIN wallets)]_vars

\* A Transfer between two unregistered keys, carrying a forged balance proof,
\* has failed with UnregisteredSender.
C18_Witness ==
  /\ last.op = "Transfer"
  /\ last.res = UnregisteredSender
  /\ last.tx.from \notin DOMAIN wallets
  /\ last.tx.to \notin DOMAIN wallets
  /\ last.tx.sufficient_balance_proof = Forged

(***************************************************************************)
(* C19.  Acceptance is available until the deadline: a transfer that was   *)
(* not accepted is Pending at every height below its expires_at_height,    *)
(* whatever else happened since it was created, and there an Accept signed *)
(* by its receiver succeeds; it credits the receiver with the transfer's   *)
(* amount, leaves the sender's balance unchanged and sets the status to    *)
(* Accepted.                                                               *)
(***************************************************************************)
\* The Accept of transfer id signed by its receiver.
AcceptOf(id) ==
  [receiver |-> transfers[id].to, transfer_id |-> id, signer |-> transfers[id].to]

C19_AcceptAvailable ==
  /\ [](\A id \in DOMAIN transfers :
          /\ (acceptedOk[id] = 0 /\ height < transfers[id].expires_at_height)
               => IsPending(transfers, id)
          /\ (IsPending(transfers, id) /\ height < transfers[id].expires_at_height)
               => /\ AcceptOf(id) \in VerifiedAccepts
                  /\ Accept_execute(Fork(wallets, transfers, height), AcceptOf(id)).res = Ok)
  /\ [][(/\ Applied("Accept")
         /\ IsPending(transfers, last'.id)
         /\ height < transfers[last'.id].expires_at_height
         /\ last'.tx.receiver = transfers[last'.id].to)
          => LET t == transfers[last'.id]
             IN /\ last'.res = Ok
                /\ wallets'[t.to] = wallets[t.to] + t.amount
                /\ wallets'[t.from] = wallets[t.from]
                /\ transfers'[last'.id] = [t EXCEPT !.status = "Accepted"]]_vars

\* The receiver's Accept has succeeded in the last block before the deadline,
\* after the block of the transfer.
C19_Witness ==
  /\ last.op = "Accept"
  /\ last.res = Ok
  /\ transfers[last.id].status = "Accepted"
  /\ height = transfers[last.id].expires_at_height - 1
  /\ height > transfers[last.id].created_at_height
  /\ wallets[transfers[last.id].to] = transfers[last.id].amount

(***************************************************************************)
(* C20.  With only verified transactions executed, every transfer record   *)
(* (Pending, Accepted or RolledBack) has a sender and a receiver that are  *)
(* distinct and both registered, so the credit of an Accept or of the      *)
(* sweep goes to an existing wallet; Transfer.execute does not compare     *)
(* sender and receiver itself: on a self-transfer of a registered wallet   *)
(* with a valid balance proof it returns Ok.                               *)
(***************************************************************************)
\* The smallest self-transfer of wallet k, with genuine proofs.
SelfTransfer(k) ==
  [from |-> k, to |-> k, rollback_delay |-> rollback_delay_bounds_start,
   amount |-> min_transfer_amount,
   amount_proof |-> RangeProofProve(0),
   sufficient_balance_proof |-> RangeProofProve(wallets[k] - min_transfer_amount),
   signer |-> k]

C20_RecordsWellFormed ==
  /\ \A id \in DOMAIN transfers :
       /\ transfers[id].from # transfers[id].to
       /\ transfers[id].from \in DOMAIN wallets
       /\ transfers[id].to \in DOMAIN wallets
  /\ \A k \in DOMAIN wallets :
       wallets[k] >= min_transfer_amount
         => /\ SelfTransfer(k) \notin VerifiedTransfers
            /\ Transfer_execute(Fork(wallets, transfers, height), SelfTransfer(k), nextId).res = Ok

\* A RolledBack and an Accepted record exist, and the receiver of the Accepted
\* one holds the credit.
C20_Witness ==
  \E i, j \in DOMAIN transfers :
    /\ transfers[i].status = "RolledBack"
    /\ transfers[j].status = "Accepted"
    /\ wallets[transfers[j].to] >= min_transfer_amount

====
